---------------------------- MODULE Spec2Model ----------------------------
(***************************************************************************)
(* Model of DecoratedSchemaProcessor                                       *)
(* (src/src/schema/decorated-schema-processor.ts): the translation of the  *)
(* decorator metadata of a class into a Tigris collection / index schema.  *)
(*                                                                         *)
(* Representation.                                                         *)
(*  - A JavaScript object is a function whose domain is its set of own     *)
(*    keys (a TLA+ record).  Key order is not represented.                 *)
(*  - An optional value (a property that may be undefined) is a set with   *)
(*    at most one element: {} is undefined, {v} is the value v.            *)
(*  - TigrisDataTypes members and class references are strings; a class    *)
(*    reference is an element of Classes (typeof x === "function").        *)
(*  - The value of a schema node's "type" key is either a type tag or a    *)
(*    nested schema; the two are kept apart as [tag |-> t] and             *)
(*    [schema |-> s].                                                      *)
(*  - Field names are JavaScript property names that are not members of    *)
(*    Object.prototype (so that `key in schema` on a fresh {} is false).   *)
(***************************************************************************)
EXTENDS Integers, Sequences, FiniteSets, TLC

VARIABLES storage, returned, resolved, stack, run

vars == <<storage, returned, resolved, stack, run>>

--------------------------------------------------------------------------
(* TigrisDataTypes members named by the processor *)

Undefined == "undefined"
T_STRING == "string"
T_BOOLEAN == "boolean"
T_INT32 == "int32"
T_INT64 == "int64"
T_NUMBER == "number"
T_BIGINT == "bigint"
T_DATE_TIME == "date-time"
T_ARRAY == "array"
T_OBJECT == "object"

TigrisDataTypes ==
    {T_STRING, T_BOOLEAN, T_INT32, T_INT64, T_NUMBER, T_BIGINT, T_DATE_TIME, T_ARRAY, T_OBJECT}

Classes == {"A", "B", "C"}

(* optional values *)
None == {}
Some(v) == {v}
The(s) == CHOOSE v \in s : TRUE

EmptyObject == [k \in {} |-> 0]

TypeTag(t) == [tag |-> t]
TypeSchema(s) == [schema |-> s]

--------------------------------------------------------------------------
(* Option Applicability Table *)

schemaOptions ==
    << [attrName |-> "default",
        doesNotApplyTo |-> {},
        doesNotApplyToParent |-> {}],
       [attrName |-> "timestamp",
        doesNotApplyTo |-> {T_OBJECT},
        doesNotApplyToParent |-> {}],
       [attrName |-> "searchIndex",
        doesNotApplyTo |-> {T_OBJECT},
        doesNotApplyToParent |-> {T_ARRAY}],
       [attrName |-> "sort",
        doesNotApplyTo |-> {T_OBJECT},
        doesNotApplyToParent |-> {T_ARRAY}],
       [attrName |-> "facet",
        doesNotApplyTo |-> {T_OBJECT},
        doesNotApplyToParent |-> {T_ARRAY}],
       [attrName |-> "dimensions",
        doesNotApplyTo |-> {T_OBJECT, T_NUMBER},
        doesNotApplyToParent |-> {T_ARRAY}],
       [attrName |-> "id",
        doesNotApplyTo |-> {T_OBJECT, T_ARRAY, T_NUMBER, T_BOOLEAN, T_BIGINT,
                            T_INT64, T_INT32, T_DATE_TIME},
        doesNotApplyToParent |-> {T_ARRAY}],
       [attrName |-> "index",
        doesNotApplyTo |-> {T_OBJECT, T_ARRAY},
        doesNotApplyToParent |-> {T_ARRAY, T_OBJECT}] >>

(* mutant: the parent type is not consulted *)
schemaOptionSupportedIgnoringParent(fieldOptions, fieldType, fieldParentType, attr) ==
    /\ attr.attrName \in DOMAIN fieldOptions
    /\ fieldType \notin attr.doesNotApplyTo

schemaOptionSupported(fieldOptions, fieldType, fieldParentType, attr) ==
    /\ attr.attrName \in DOMAIN fieldOptions
    /\ fieldType \notin attr.doesNotApplyTo
    /\ (fieldParentType = Undefined
        \/ fieldParentType \notin attr.doesNotApplyToParent)

--------------------------------------------------------------------------
(* Field Resolver *)

(* searchFieldsLookup is an Array used as a dictionary: writing an object  *)
(* to its "length" key throws RangeError (invalid array length).           *)
searchFieldsLookupThrows(searchFields) ==
    \E i \in DOMAIN searchFields : searchFields[i].name = "length"

(* searchFieldsLookup[name]: the last search field written under name *)
searchFieldsLookup(searchFields, name) ==
    LET idx == {i \in DOMAIN searchFields : searchFields[i].name = name}
    IN  IF idx = {} THEN None
        ELSE Some(searchFields[CHOOSE i \in idx : \A j \in idx : j <= i])

(* { ...a, ...b } on two optional option bags *)
spreadOptions(a, b) ==
    LET x == IF a = None THEN EmptyObject ELSE The(a)
        y == IF b = None THEN EmptyObject ELSE The(b)
    IN  [k \in DOMAIN x \cup DOMAIN y |-> IF k \in DOMAIN y THEN y[k] ELSE x[k]]

(* the descriptor pushed for one collection field *)
mergedField(cf, searchFields) ==
    LET searchField == searchFieldsLookup(searchFields, cf.name)
    IN  IF searchField # None
        THEN [cf EXCEPT !.schemaFieldOptions =
                 Some(spreadOptions(cf.schemaFieldOptions,
                                    The(searchField).schemaFieldOptions))]
        ELSE cf

(* collection mode: the merge of collection fields and search fields *)
mergedSchemaFields(st, from) ==
    LET searchFields == st.searchFields[from]
        collectionFields == st.fields[from]
        visitedFields == {collectionFields[i].name : i \in DOMAIN collectionFields}
        notVisited(sf) == sf.name \notin visitedFields
    IN  IF searchFieldsLookupThrows(searchFields)
        THEN [threw |-> "RangeError", fields |-> <<>>]
        ELSE [threw |-> "",
              fields |-> [i \in DOMAIN collectionFields |->
                             mergedField(collectionFields[i], searchFields)]
                         \o SelectSeq(searchFields, notVisited)]

(* mutant: the mode flag is ignored and index mode merges as well *)
getSchemaFieldsIgnoringMode(st, from, forCollection) ==
    mergedSchemaFields(st, from)

getSchemaFields(st, from, forCollection) ==
    IF ~forCollection
    THEN [threw |-> "", fields |-> st.searchFields[from]]
    ELSE mergedSchemaFields(st, from)

(* mutant: the merged option bag is written back to the stored descriptor *)
storageAfterMergeInPlace(st, from, forCollection) ==
    IF forCollection /\ ~searchFieldsLookupThrows(st.searchFields[from])
    THEN [st EXCEPT !.fields[from] =
             [i \in DOMAIN @ |-> mergedField(@[i], st.searchFields[from])]]
    ELSE st

(* the metadata store after a field resolution: the resolver pushes copies *)
(* ({...cf, schemaFieldOptions}) and never writes to a stored descriptor   *)
storageAfterGetSchemaFields(st, from, forCollection) == st

--------------------------------------------------------------------------
(* Schema Builder *)

RECURSIVE buildNestedArray(_, _)
buildNestedArray(items, depth) ==
    IF depth > 1
    THEN [type |-> TypeTag(T_ARRAY), items |-> buildNestedArray(items, depth - 1)]
    ELSE [type |-> TypeTag(T_ARRAY), items |-> items]

(* mutant: arrayDepth is not read *)
effectiveArrayDepthIgnored(field) == 1

(* arrayDepth = field.arrayDepth && field.arrayDepth > 1 ? field.arrayDepth : 1 *)
effectiveArrayDepth(field) ==
    IF field.arrayDepth # None /\ The(field.arrayDepth) # 0 /\ The(field.arrayDepth) > 1
    THEN The(field.arrayDepth)
    ELSE 1

(* mutant: the nested schema is attached even when it is empty *)
objectNodeUnchecked(seeded, embedSchema, rebuilt) == [type |-> TypeSchema(rebuilt)]

(* if (Object.keys(embedSchema).length > 0) schema[key] = { type: <built again> } *)
objectNode(seeded, embedSchema, rebuilt) ==
    IF DOMAIN embedSchema # {} THEN [type |-> TypeSchema(rebuilt)] ELSE seeded

(* parentFieldType ?? field.type *)
childParentType(parentFieldType, field) ==
    IF parentFieldType = Undefined THEN field.type ELSE parentFieldType

(* the optional attributes written on a field's node *)
supportedOptions(field, parentFieldType) ==
    IF field.schemaFieldOptions = None THEN {}
    ELSE {schemaOptions[i].attrName : i \in
            {j \in DOMAIN schemaOptions :
               schemaOptionSupported(The(field.schemaFieldOptions), field.type,
                                     parentFieldType, schemaOptions[j])}}

withOptions(node, field, parentFieldType) ==
    LET attrs == supportedOptions(field, parentFieldType)
    IN  [k \in DOMAIN node \cup attrs |->
            IF k \in attrs THEN The(field.schemaFieldOptions)[k] ELSE node[k]]

withMaxLength(node, field) ==
    IF field.schemaFieldOptions # None
       /\ "maxLength" \in DOMAIN The(field.schemaFieldOptions)
    THEN [k \in DOMAIN node \cup {"maxLength"} |->
            IF k = "maxLength" THEN The(field.schemaFieldOptions)[k] ELSE node[k]]
    ELSE node

RECURSIVE buildTigrisSchema(_, _, _, _)
RECURSIVE buildFields(_, _, _, _, _, _)

(* one iteration of the loop over fields: the schema after field i *)
buildField(st, field, schema, forCollection, parentFieldType) ==
    LET key == field.name
        seeded == IF key \in DOMAIN schema THEN schema[key]
                  ELSE [type |-> TypeTag(field.type)]
        embed == buildTigrisSchema(st, field.embedType, forCollection,
                                   childParentType(parentFieldType, field))
        isClass == field.embedType \in Classes
        arrayItems == IF isClass THEN [type |-> TypeSchema(embed.schema)]
                      ELSE [type |-> TypeTag(field.embedType)]
        typed ==
            CASE field.type = T_ARRAY ->
                    buildNestedArray(arrayItems, effectiveArrayDepth(field))
              [] field.type = T_OBJECT ->
                    IF isClass
                    THEN objectNode(seeded, embed.schema,
                            buildTigrisSchema(st, field.embedType, forCollection,
                                childParentType(parentFieldType, field)).schema)
                    ELSE seeded
              [] field.type = T_STRING -> withMaxLength(seeded, field)
              [] OTHER -> seeded
        node == withOptions(typed, field, parentFieldType)
    IN  IF field.type \in {T_ARRAY, T_OBJECT} /\ isClass /\ embed.threw # ""
        THEN [threw |-> embed.threw, schema |-> schema]
        ELSE [threw |-> "",
              schema |-> [k \in DOMAIN schema \cup {key} |->
                            IF k = key THEN node ELSE schema[k]]]

buildFields(st, fields, i, schema, forCollection, parentFieldType) ==
    IF i > Len(fields) THEN [threw |-> "", schema |-> schema]
    ELSE LET r == buildField(st, fields[i], schema, forCollection, parentFieldType)
         IN  IF r.threw # "" THEN r
             ELSE buildFields(st, fields, i + 1, r.schema, forCollection,
                              parentFieldType)

buildTigrisSchema(st, from, forCollection, parentFieldType) ==
    LET r == getSchemaFields(st, from, forCollection)
    IN  IF r.threw # "" THEN [threw |-> r.threw, schema |-> EmptyObject]
        ELSE buildFields(st, r.fields, 1, EmptyObject, forCollection,
                         parentFieldType)

--------------------------------------------------------------------------
(* Primary Key Augmenter *)

(* !pk?.options?.order *)
orderMissing(pk) ==
    \/ pk.options = None
    \/ The(pk.options).order = None
    \/ The(The(pk.options).order) = 0

(* the field name carried by the error, or None when validation passes *)
validatePrimaryKeysOrder(primaryKeys) ==
    LET bad == {i \in DOMAIN primaryKeys : orderMissing(primaryKeys[i])}
    IN  IF Len(primaryKeys) > 1 /\ bad # {}
        THEN Some(primaryKeys[CHOOSE i \in bad : \A j \in bad : i <= j].name)
        ELSE None

(* { order: pk.options?.order ?? 1, autoGenerate: pk.options?.autoGenerate === true } *)
primaryKeyAttr(pk) ==
    [order |-> IF pk.options = None \/ The(pk.options).order = None
               THEN 1 ELSE The(The(pk.options).order),
     autoGenerate |-> pk.options # None /\ The(pk.options).autoGenerate = Some(TRUE)]

RECURSIVE writePrimaryKeys(_, _, _)
writePrimaryKeys(targetSchema, primaryKeys, i) ==
    IF i > Len(primaryKeys) THEN targetSchema
    ELSE LET pk == primaryKeys[i]
             node == IF pk.name \in DOMAIN targetSchema THEN targetSchema[pk.name]
                     ELSE [type |-> TypeTag(pk.type)]
             marked == [k \in DOMAIN node \cup {"primary_key"} |->
                          IF k = "primary_key" THEN primaryKeyAttr(pk) ELSE node[k]]
         IN  writePrimaryKeys(
                 [k \in DOMAIN targetSchema \cup {pk.name} |->
                     IF k = pk.name THEN marked ELSE targetSchema[k]],
                 primaryKeys, i + 1)

addPrimaryKeys(targetSchema, st, collectionClass) ==
    LET primaryKeysMetadata == st.pks[collectionClass]
        offending == validatePrimaryKeysOrder(primaryKeysMetadata)
    IN  IF offending # None
        THEN [threw |-> "IncompletePrimaryKeyOrderError",
              errField |-> The(offending), schema |-> EmptyObject]
        ELSE [threw |-> "", errField |-> "",
              schema |-> writePrimaryKeys(targetSchema, primaryKeysMetadata, 1)]

--------------------------------------------------------------------------
(* Public operations: what the caller receives *)

Returned(name, schema) ==
    [status |-> "ok", name |-> name, schema |-> schema,
     errField |-> "", errClass |-> ""]

Thrown(error, errField, errClass) ==
    [status |-> error, name |-> "", schema |-> EmptyObject,
     errField |-> errField, errClass |-> errClass]

processIndex(st, cls) ==
    LET built == buildTigrisSchema(st, cls, FALSE, Undefined)
    IN  IF built.threw # "" THEN Thrown(built.threw, "", "")
        ELSE Returned(cls, built.schema)

processCollection(st, cls) ==
    LET built == buildTigrisSchema(st, cls, TRUE, Undefined)
        keyed == addPrimaryKeys(built.schema, st, cls)
    IN  IF built.threw # "" THEN Thrown(built.threw, "", "")
        ELSE IF keyed.threw # "" THEN Thrown(keyed.threw, keyed.errField, cls)
        ELSE Returned(cls, keyed.schema)

--------------------------------------------------------------------------
(* Metadata Store contents: the descriptors registered for the classes.    *)
(* collections / indexes are the classes registered as a collection / as  *)
(* an index (getCollectionByTarget / getIndexByTarget find them).          *)

MaxOrder == 2

FieldMetadata(name, type, embedType, arrayDepth, options) ==
    [name |-> name, type |-> type, embedType |-> embedType,
     arrayDepth |-> arrayDepth, schemaFieldOptions |-> options]

PrimaryKeyMetadata(name, type, options) ==
    [name |-> name, type |-> type, options |-> options]

(* an option bag holding the given keys *)
Bag(keys) == [k \in keys |-> 1]

NoFields == [c \in Classes |-> <<>>]

Store(collections, indexes, fields, searchFields, pks) ==
    [collections |-> collections, indexes |-> indexes, fields |-> fields,
     searchFields |-> searchFields, pks |-> pks]

(* all sequences without repetition over the names S, of length <= n *)
RECURSIVE DistinctSeqs(_, _)
DistinctSeqs(S, n) ==
    IF n = 0 THEN {<<>>}
    ELSE LET shorter == DistinctSeqs(S, n - 1)
         IN  shorter \cup
             UNION {{Append(q, x) : x \in S \ {q[i] : i \in DOMAIN q}} :
                    q \in {r \in shorter : Len(r) = n - 1}}

(* options of a primary-key decorator *)
PrimaryKeyOptions ==
    {None} \cup
    {Some([order |-> o, autoGenerate |-> g]) :
        o \in {None} \cup {Some(n) : n \in 0..MaxOrder},
        g \in {None, Some(TRUE), Some(FALSE)}}

PKNames == {"id", "key"}
PKType(name) == IF name = "id" THEN T_STRING ELSE T_INT64

(* primary-key descriptor lists: distinct names, every choice of options *)
PrimaryKeyLists ==
    UNION {
        {[i \in DOMAIN names |-> PrimaryKeyMetadata(names[i], PKType(names[i]), opts[i])] :
            opts \in [DOMAIN names -> PrimaryKeyOptions]} :
        names \in DistinctSeqs(PKNames, Cardinality(PKNames))}

(* Collection A (also an index) with collection and search fields and an   *)
(* array of B; B is a collection and an index of its own.                  *)
KeyedStores ==
    {Store({"A", "B"}, {"A", "B"},
           [NoFields EXCEPT
              !["A"] = << FieldMetadata("id", T_STRING, Undefined, None,
                                        Some([default |-> 1, maxLength |-> 2])),
                          FieldMetadata("name", T_STRING, Undefined, None, None) >>,
              !["B"] = << FieldMetadata("x", T_INT32, Undefined, None,
                                        Some(Bag({"default"}))) >>],
           [NoFields EXCEPT
              !["A"] = << FieldMetadata("name", T_STRING, Undefined, None,
                                        Some(Bag({"searchIndex", "sort"}))),
                          FieldMetadata("items", T_ARRAY, "B", None, None) >>,
              !["B"] = << FieldMetadata("y", T_STRING, Undefined, None,
                                        Some(Bag({"facet"}))) >>],
           [NoFields EXCEPT !["A"] = pksA, !["B"] = pksB]) :
        pksA \in PrimaryKeyLists,
        pksB \in {<<>>, << PrimaryKeyMetadata("x", T_INT32, None) >>,
                  << PrimaryKeyMetadata("x", T_INT32, None),
                     PrimaryKeyMetadata("y", T_STRING, None) >>}}

MaxFields == 2

FieldNames == {"a", "b", "length"}

OptionBags ==
    {None, Some(EmptyObject), Some([default |-> 1]),
     Some([default |-> 2, facet |-> 1])}

(* descriptor lists of one source: distinct names, every choice of bags *)
FieldLists(type, embedType, arrayDepth) ==
    UNION {
        {[i \in DOMAIN names |->
             FieldMetadata(names[i], type, embedType, arrayDepth, bags[i])] :
            bags \in [DOMAIN names -> OptionBags]} :
        names \in DistinctSeqs(FieldNames, MaxFields)}

(* Class A declared through both decorators; a property declared through  *)
(* both is an array of strings for the collection, a string for the index. *)
MergedStores ==
    {Store({"A"}, {"A"}, [NoFields EXCEPT !["A"] = cfs],
           [NoFields EXCEPT !["A"] = sfs], NoFields) :
        cfs \in FieldLists(T_ARRAY, T_STRING, Some(2)),
        sfs \in FieldLists(T_STRING, Undefined, None)}

OptionKeys == {schemaOptions[i].attrName : i \in DOMAIN schemaOptions}

(* the one declared property of a class, through either decorator *)
Declare(cls, field, asSearchField) ==
    IF asSearchField
    THEN [fields |-> NoFields, searchFields |-> [NoFields EXCEPT ![cls] = <<field>>]]
    ELSE [fields |-> [NoFields EXCEPT ![cls] = <<field>>], searchFields |-> NoFields]

(* A property "f" of every type with every set of optional attributes in   *)
(* its bag, declared at the top level of A, or in a class B that A holds   *)
(* in an array or embeds as an object.                                     *)
OptionStores ==
    {LET leaf == FieldMetadata("f", type,
                               IF type = T_ARRAY THEN T_STRING ELSE Undefined,
                               None, Some(Bag(keys)))
         holder == FieldMetadata("p", container, "B", None, None)
         a == Declare("A", IF container = Undefined THEN leaf ELSE holder, asSearch)
         b == Declare("B", leaf, asSearch)
     IN  Store({"A"}, {"A"},
               IF container = Undefined THEN a.fields
               ELSE [a.fields EXCEPT !["B"] = b.fields["B"]],
               IF container = Undefined THEN a.searchFields
               ELSE [a.searchFields EXCEPT !["B"] = b.searchFields["B"]],
               NoFields) :
        type \in TigrisDataTypes, keys \in SUBSET OptionKeys,
        container \in {Undefined, T_ARRAY, T_OBJECT}, asSearch \in {TRUE, FALSE}}

MaxArrayDepth == 3

NestingKeys == {"default", "facet", "index"}

(* the declarations of one property, or of none, for each class *)
RootFields ==
    {FieldMetadata("a", T_ARRAY, embedType, arrayDepth, options) :
        embedType \in {"B", T_STRING, Undefined},
        arrayDepth \in {None} \cup {Some(n) : n \in 0..MaxArrayDepth},
        options \in {None, Some(Bag(NestingKeys))}}
    \cup
    {FieldMetadata("a", T_OBJECT, embedType, None, options) :
        embedType \in {"B", T_STRING, Undefined},
        options \in {None, Some(Bag(NestingKeys))}}

MiddleFields ==
    {FieldMetadata("b", T_ARRAY, embedType, arrayDepth, options) :
        embedType \in {"C", T_INT32}, arrayDepth \in {None, Some(2)},
        options \in {None, Some(Bag(NestingKeys))}}
    \cup
    {FieldMetadata("b", type, embedType, None, options) :
        type \in {T_OBJECT, T_STRING}, embedType \in {"C", Undefined},
        options \in {None, Some(Bag(NestingKeys))}}

LeafFields ==
    {FieldMetadata("c", T_STRING, Undefined, None, options) :
        options \in {None} \cup {Some(Bag(keys)) : keys \in SUBSET NestingKeys}}

(* A holds B in an array or an object (or holds scalars), B holds C        *)
(* likewise, C has a string property or none; all declared through the     *)
(* same decorator.                                                         *)
NestedStores ==
    {LET list(fs) == IF fs = None THEN <<>> ELSE <<The(fs)>>
         decl == [NoFields EXCEPT !["A"] = <<a>>, !["B"] = list(b), !["C"] = list(c)]
     IN  Store({"A"}, {"A"},
               IF asSearch THEN NoFields ELSE decl,
               IF asSearch THEN decl ELSE NoFields,
               NoFields) :
        a \in RootFields,
        b \in {None} \cup {Some(f) : f \in MiddleFields},
        c \in {None} \cup {Some(f) : f \in LeafFields},
        asSearch \in {TRUE, FALSE}}

MaxStack == 4

EmbeddingFields(name) ==
    {FieldMetadata(name, type, target, None, None) :
        type \in {T_ARRAY, T_OBJECT}, target \in Classes}

(* Every class embeds at most one class (any class, itself included)       *)
(* through an array or an object; C may have a string property instead; B  *)
(* may have a search field named "length"; A may have two primary keys     *)
(* without order.  All properties are declared through the same decorator. *)
EmbeddingStores ==
    {LET list(fs) == IF fs = None THEN <<>> ELSE <<The(fs)>>
         decl == [NoFields EXCEPT !["A"] = list(a), !["B"] = list(b), !["C"] = list(c)]
         len == FieldMetadata("length", T_INT32, Undefined, None, None)
         search == IF asSearch THEN decl ELSE NoFields
     IN  Store({"A"}, {"A"},
               IF asSearch THEN NoFields ELSE decl,
               IF hasLength THEN [search EXCEPT !["B"] = Append(@, len)] ELSE search,
               [NoFields EXCEPT !["A"] = pks]) :
        a \in {None} \cup {Some(f) : f \in EmbeddingFields("a")},
        b \in {None} \cup {Some(f) : f \in EmbeddingFields("b")},
        c \in {None, Some(FieldMetadata("c", T_STRING, Undefined, None, None))}
              \cup {Some(f) : f \in EmbeddingFields("c")},
        asSearch \in {TRUE, FALSE}, hasLength \in {TRUE, FALSE},
        pks \in {<<>>, << PrimaryKeyMetadata("a", T_STRING, None),
                          PrimaryKeyMetadata("k", T_INT32, None) >>}}

--------------------------------------------------------------------------
(* State machine: a caller invoking the processor on a metadata store *)

Calls == {"processCollection", "processIndex"} \X Classes

Idle == [root |-> "", forCollection |-> FALSE, status |-> "idle"]

InitWith(stores) ==
    /\ storage \in stores
    /\ returned = [c \in Calls |-> {}]
    /\ resolved = None
    /\ stack = <<>>
    /\ run = Idle

ProcessCollection(cls) ==
    /\ cls \in storage.collections
    /\ returned' = [returned EXCEPT ![<<"processCollection", cls>>] =
                        @ \cup {processCollection(storage, cls)}]
    /\ storage' = storageAfterGetSchemaFields(storage, cls, TRUE)
    /\ UNCHANGED <<resolved, stack, run>>

ProcessIndex(cls) ==
    /\ cls \in storage.indexes
    /\ returned' = [returned EXCEPT ![<<"processIndex", cls>>] =
                        @ \cup {processIndex(storage, cls)}]
    /\ storage' = storageAfterGetSchemaFields(storage, cls, FALSE)
    /\ UNCHANGED <<resolved, stack, run>>

GetSchemaFields(cls, forCollection) ==
    /\ cls \in (IF forCollection THEN storage.collections ELSE storage.indexes)
    /\ resolved' = Some([from |-> cls, forCollection |-> forCollection,
                         result |-> getSchemaFields(storage, cls, forCollection)])
    /\ storage' = storageAfterGetSchemaFields(storage, cls, forCollection)
    /\ UNCHANGED <<returned, stack, run>>

Next ==
    \E cls \in Classes : ProcessCollection(cls) \/ ProcessIndex(cls)

Init == InitWith(KeyedStores)

Spec == Init /\ [][Next]_vars

NextFields ==
    \E cls \in Classes : \E forCollection \in {TRUE, FALSE} :
        GetSchemaFields(cls, forCollection)

InitFields == InitWith(MergedStores)

SpecFields == InitFields /\ [][NextFields]_vars

InitOptions == InitWith(OptionStores)

SpecOptions == InitOptions /\ [][Next]_vars

InitNesting == InitWith(NestedStores)

SpecNesting == InitNesting /\ [][Next]_vars

--------------------------------------------------------------------------
(* The recursion of buildTigrisSchema, one call or loop iteration a step.  *)
(* A frame is an activation of buildTigrisSchema: its arguments, the index *)
(* of the field the loop is at, the keys of its schema so far, the number  *)
(* of recursive calls completed for the current field and whether the last *)
(* one returned an empty schema.                                           *)

Frame(from, parentFieldType) ==
    [from |-> from, parentFieldType |-> parentFieldType, i |-> 1, keys |-> {},
     calls |-> 0, embedEmpty |-> FALSE]

Top == stack[Len(stack)]

TopFields == getSchemaFields(storage, Top.from, run.forCollection)

(* mutant: the recursive call is made on the class being built *)
calleeFrameOfSameClass(frame, field) ==
    Frame(frame.from, childParentType(frame.parentFieldType, field))

(* the activation a recursive call creates *)
calleeFrame(frame, field) ==
    Frame(field.embedType, childParentType(frame.parentFieldType, field))

(* the current field still has a recursive call to make: one for an array  *)
(* of a class, one for an object of a class and a second one when the      *)
(* first returned a non-empty schema                                       *)
needsCall(field, calls, embedEmpty) ==
    /\ field.embedType \in Classes
    /\ \/ field.type = T_ARRAY /\ calls = 0
       \/ field.type = T_OBJECT /\ calls = 0
       \/ field.type = T_OBJECT /\ calls = 1 /\ ~embedEmpty

Build(cls, forCollection) ==
    /\ run.status = "idle"
    /\ cls \in (IF forCollection THEN storage.collections ELSE storage.indexes)
    /\ run' = [root |-> cls, forCollection |-> forCollection, status |-> "running"]
    /\ stack' = <<Frame(cls, Undefined)>>
    /\ UNCHANGED <<storage, returned, resolved>>

(* getSchemaFields throws: the exception unwinds every activation *)
Throw ==
    /\ run.status = "running" /\ stack # <<>>
    /\ TopFields.threw # ""
    /\ stack' = <<>>
    /\ run' = [run EXCEPT !.status = "threw"]
    /\ UNCHANGED <<storage, returned, resolved>>

Descend ==
    /\ run.status = "running" /\ stack # <<>>
    /\ TopFields.threw = ""
    /\ Top.i <= Len(TopFields.fields)
    /\ needsCall(TopFields.fields[Top.i], Top.calls, Top.embedEmpty)
    /\ Len(stack) < MaxStack
    /\ stack' = Append(stack, calleeFrame(Top, TopFields.fields[Top.i]))
    /\ UNCHANGED <<storage, returned, resolved, run>>

Advance ==
    /\ run.status = "running" /\ stack # <<>>
    /\ TopFields.threw = ""
    /\ Top.i <= Len(TopFields.fields)
    /\ ~needsCall(TopFields.fields[Top.i], Top.calls, Top.embedEmpty)
    /\ stack' = [stack EXCEPT ![Len(stack)] =
                    [@ EXCEPT !.i = @ + 1, !.calls = 0,
                              !.keys = @ \cup {TopFields.fields[Top.i].name}]]
    /\ UNCHANGED <<storage, returned, resolved, run>>

Return ==
    /\ run.status = "running" /\ stack # <<>>
    /\ TopFields.threw = ""
    /\ Top.i > Len(TopFields.fields)
    /\ stack' = IF Len(stack) = 1 THEN <<>>
                ELSE [SubSeq(stack, 1, Len(stack) - 1) EXCEPT ![Len(stack) - 1] =
                         [@ EXCEPT !.calls = @ + 1, !.embedEmpty = (Top.keys = {})]]
    /\ run' = IF Len(stack) = 1 THEN [run EXCEPT !.status = "built"] ELSE run
    /\ UNCHANGED <<storage, returned, resolved>>

(* after the build: processIndex returns, processCollection adds the keys *)
Augment ==
    /\ run.status = "built"
    /\ run' = [run EXCEPT !.status =
                  IF run.forCollection
                     /\ validatePrimaryKeysOrder(storage.pks[run.root]) # None
                  THEN "threw" ELSE "returned"]
    /\ UNCHANGED <<storage, returned, resolved, stack>>

Step == Throw \/ Descend \/ Advance \/ Return \/ Augment

NextRecursion ==
    \/ \E cls \in Classes : \E forCollection \in {TRUE, FALSE} : Build(cls, forCollection)
    \/ Step

InitRecursion == InitWith(EmbeddingStores)

(* the processor runs synchronously: a started call keeps executing *)
SpecRecursion == InitRecursion /\ [][NextRecursion]_vars /\ WF_vars(Step)

--------------------------------------------------------------------------
(* Reading a schema document *)

RECURSIVE NodeHasKey(_, _)
RECURSIVE SchemaHasKey(_, _)

(* some node of the schema, at any nesting level, has the key k *)
SchemaHasKey(schema, k) == \E f \in DOMAIN schema : NodeHasKey(schema[f], k)

NodeHasKey(node, k) ==
    \/ k \in DOMAIN node
    \/ "items" \in DOMAIN node /\ NodeHasKey(node.items, k)
    \/ "type" \in DOMAIN node /\ "schema" \in DOMAIN node.type
       /\ SchemaHasKey(node.type.schema, k)

(* the node without the key k *)
Without(node, k) == [x \in DOMAIN node \ {k} |-> node[x]]

CollectionResults(cls) == returned[<<"processCollection", cls>>]
IndexResults(cls) == returned[<<"processIndex", cls>>]

(* the descriptor carries no options.order at all *)
NoExplicitOrder(pk) == pk.options = None \/ The(pk.options).order = None

KeyNames(cls) == {storage.pks[cls][i].name : i \in DOMAIN storage.pks[cls]}

--------------------------------------------------------------------------
(* C1: processCollection on a class with two or more primary-key           *)
(* descriptors, at least one without an explicit options.order, fails with *)
(* IncompletePrimaryKeyOrderError carrying the name of the first           *)
(* descriptor (in declaration order) that lacks an order and the class     *)
(* name, and returns no schema document.                                   *)
C1_FirstKeyWithoutOrderIsReported ==
    \A cls \in Classes : \A r \in CollectionResults(cls) :
        LET pks == storage.pks[cls]
            lacking == {i \in DOMAIN pks : NoExplicitOrder(pks[i])}
        IN  (Len(pks) >= 2 /\ lacking # {}) =>
               /\ r.status = "IncompletePrimaryKeyOrderError"
               /\ r.errField = pks[CHOOSE i \in lacking : \A j \in lacking : i <= j].name
               /\ r.errClass = cls
               /\ r.schema = EmptyObject

(* C2: processCollection succeeds whenever the primary-key descriptors     *)
(* number at most one or all carry an explicit integer order (0 included); *)
(* on success every primary-key field is a key of the schema with          *)
(* primary_key = {order: order if set else 1, autoGenerate: autoGenerate   *)
(* === true}, a key absent from the built schema is seeded {type:          *)
(* pk.type}, a built node keeps its other attributes and no other field    *)
(* gains primary_key.                                                      *)
C2_OrderedKeysSucceed ==
    \A cls \in Classes : \A r \in CollectionResults(cls) :
        LET pks == storage.pks[cls]
            built == buildTigrisSchema(storage, cls, TRUE, Undefined).schema
        IN  (Len(pks) <= 1 \/ \A i \in DOMAIN pks : ~NoExplicitOrder(pks[i])) =>
               /\ r.status = "ok"
               /\ \A i \in DOMAIN pks :
                     /\ pks[i].name \in DOMAIN r.schema
                     /\ "primary_key" \in DOMAIN r.schema[pks[i].name]
                     /\ r.schema[pks[i].name].primary_key =
                           [order |-> IF NoExplicitOrder(pks[i]) THEN 1
                                      ELSE The(The(pks[i].options).order),
                            autoGenerate |->
                                /\ pks[i].options # None
                                /\ The(pks[i].options).autoGenerate = Some(TRUE)]
                     /\ Without(r.schema[pks[i].name], "primary_key") =
                           IF pks[i].name \in DOMAIN built THEN built[pks[i].name]
                           ELSE [type |-> TypeTag(pks[i].type)]
               /\ DOMAIN r.schema = DOMAIN built \cup KeyNames(cls)
               /\ \A f \in DOMAIN r.schema \ KeyNames(cls) : r.schema[f] = built[f]

SearchFieldsOnly(st) == [st EXCEPT !.fields = NoFields, !.pks = NoFields]

RECURSIVE BuiltFromSearchFields(_, _)
(* every level of the schema has exactly the search fields of its class as *)
(* keys, and no node has an attribute its search field does not declare    *)
BuiltFromSearchFields(schema, cls) ==
    LET sfs == storage.searchFields[cls]
    IN  /\ DOMAIN schema = {sfs[i].name : i \in DOMAIN sfs}
        /\ \A i \in DOMAIN sfs :
              LET node == schema[sfs[i].name]
                  declared == IF sfs[i].schemaFieldOptions = None THEN {}
                              ELSE DOMAIN The(sfs[i].schemaFieldOptions)
              IN  /\ DOMAIN node \ {"type", "items"} \subseteq declared
                  /\ (sfs[i].type = T_ARRAY /\ sfs[i].embedType \in Classes) =>
                        BuiltFromSearchFields(node.items.type.schema, sfs[i].embedType)

(* C10: processIndex builds its schema, at every nesting level, from the   *)
(* search-field metadata only, never raises                                *)
(* IncompletePrimaryKeyOrderError and returns no node with primary_key.    *)
C10_IndexIgnoresCollectionMetadata ==
    \A cls \in Classes : \A r \in IndexResults(cls) :
        /\ r.status = "ok"
        /\ r = processIndex(SearchFieldsOnly(storage), cls)
        /\ BuiltFromSearchFields(r.schema, cls)
        /\ ~SchemaHasKey(r.schema, "primary_key")

C10_Witness ==
    /\ IndexResults("A") # {}
    /\ \E r \in CollectionResults("A") : r.status = "IncompletePrimaryKeyOrderError"
    /\ Len(storage.pks["A"]) >= 2
    /\ storage.fields["A"] # <<>>

Names(fields) == [i \in DOMAIN fields |-> fields[i].name]

NameSet(fields) == {fields[i].name : i \in DOMAIN fields}

(* the descriptor named n of a list without repeated names *)
Named(fields, n) == fields[CHOOSE i \in DOMAIN fields : fields[i].name = n]

(* the union of two optional bags, the second winning on a shared key *)
BagUnion(a, b) ==
    LET keys == (IF a = None THEN {} ELSE DOMAIN The(a))
                \cup (IF b = None THEN {} ELSE DOMAIN The(b))
    IN  [k \in keys |->
            IF b # None /\ k \in DOMAIN The(b) THEN The(b)[k] ELSE The(a)[k]]

(* C3: in collection mode getSchemaFields returns, for lists without       *)
(* repeated names, one descriptor per distinct name: the collection fields *)
(* in declaration order, then the search-only fields in declaration order; *)
(* a field of both sources keeps the collection field's name, type,        *)
(* embedType and arrayDepth with the union of both bags (search wins), a   *)
(* field of one source keeps its own bag unmodified.                       *)
C3_CollectionFieldsThenSearchOnly ==
    \A r \in resolved :
        r.forCollection =>
            LET cfs == storage.fields[r.from]
                sfs == storage.searchFields[r.from]
                searchOnly(sf) == sf.name \notin NameSet(cfs)
                out == r.result.fields
            IN  /\ r.result.threw = ""
                /\ Names(out) = Names(cfs) \o Names(SelectSeq(sfs, searchOnly))
                /\ \A i \in DOMAIN out :
                      out[i] =
                        IF out[i].name \in NameSet(cfs) \cap NameSet(sfs)
                        THEN [Named(cfs, out[i].name) EXCEPT !.schemaFieldOptions =
                                 Some(BagUnion(@, Named(sfs, out[i].name).schemaFieldOptions))]
                        ELSE IF out[i].name \in NameSet(cfs)
                        THEN Named(cfs, out[i].name)
                        ELSE Named(sfs, out[i].name)

(* the only declared property of a class *)
Declared(cls) ==
    IF storage.fields[cls] # <<>> THEN storage.fields[cls][1]
    ELSE storage.searchFields[cls][1]

AllResults == UNION {returned[c] : c \in Calls}

(* the results whose schema holds the property "f" of the option stores,   *)
(* with the node of "f" and the type of the field that contains it         *)
LeafNodes ==
    {[node |-> IF Declared("A").name = "f" THEN r.schema["f"]
               ELSE IF Declared("A").type = T_ARRAY
               THEN r.schema["p"].items.type.schema["f"]
               ELSE r.schema["p"].type.schema["f"],
      field |-> IF Declared("A").name = "f" THEN Declared("A") ELSE Declared("B"),
      parent |-> IF Declared("A").name = "f" THEN Undefined ELSE Declared("A").type] :
        r \in {x \in AllResults : x.status = "ok" /\ x.schema # EmptyObject}}

(* the blocked combinations of the specification's table *)
TableBlocksType(attr, type) ==
    \/ attr # "default" /\ type = T_OBJECT
    \/ attr = "dimensions" /\ type = T_NUMBER
    \/ attr = "id" /\ type \in {T_ARRAY, T_NUMBER, T_BOOLEAN, T_BIGINT, T_INT64,
                                T_INT32, T_DATE_TIME}

TableBlocksParent(attr, parent) ==
    \/ parent = T_ARRAY
       /\ attr \in {"searchIndex", "sort", "facet", "dimensions", "id", "index"}
    \/ parent = T_OBJECT /\ attr = "index"

(* C4 as stated: an optional attribute is on the output node iff its key   *)
(* is in the field's bag, the field type is not blocked and no tracked     *)
(* parent type blocks it, the blocked pairs being exactly the table's.     *)
C4_TableIsExact ==
    \A l \in LeafNodes : \A attr \in OptionKeys :
        attr \in DOMAIN l.node <=>
            /\ attr \in DOMAIN The(l.field.schemaFieldOptions)
            /\ ~TableBlocksType(attr, l.field.type)
            /\ (l.parent = Undefined \/ ~TableBlocksParent(attr, l.parent))

(* C4 amended: the same, with index also blocked on an ARRAY-typed field.  *)
C4_TableWithIndexOnArray ==
    \A l \in LeafNodes : \A attr \in OptionKeys :
        attr \in DOMAIN l.node <=>
            /\ attr \in DOMAIN The(l.field.schemaFieldOptions)
            /\ ~(TableBlocksType(attr, l.field.type)
                 \/ (attr = "index" /\ l.field.type = T_ARRAY))
            /\ (l.parent = Undefined \/ ~TableBlocksParent(attr, l.parent))

C4_Witness ==
    \E l \in LeafNodes :
        /\ l.parent = Undefined /\ l.field.type = T_ARRAY
        /\ DOMAIN The(l.field.schemaFieldOptions) = OptionKeys
        /\ DOMAIN l.node = {"type", "items", "default", "timestamp", "searchIndex",
                            "sort", "facet", "dimensions"}

--------------------------------------------------------------------------
(* Walking the schema of a nested store: the nodes of "a", "b" and "c"     *)

RECURSIVE Element(_)
(* the element descriptor under the array wrappers of a node *)
Element(node) == IF "items" \in DOMAIN node THEN Element(node.items) ELSE node

RECURSIVE Wrappers(_)
(* the number of array wrappers of a node *)
Wrappers(node) == IF "items" \in DOMAIN node THEN 1 + Wrappers(node.items) ELSE 0

RECURSIVE InnerWrappersBare(_)
(* every wrapper below the node is exactly {type: ARRAY, items} *)
InnerWrappersBare(node) ==
    "items" \in DOMAIN node.items =>
        /\ DOMAIN node.items = {"type", "items"}
        /\ node.items.type = TypeTag(T_ARRAY)
        /\ InnerWrappersBare(node.items)

(* the node holds the schema of its field's class *)
HoldsSchema(node, field) ==
    /\ field.embedType \in Classes
    /\ \/ field.type = T_ARRAY
       \/ field.type = T_OBJECT /\ "schema" \in DOMAIN node.type

HeldSchema(node, field) ==
    IF field.type = T_ARRAY THEN Element(node).type.schema ELSE node.type.schema

ModeOf(call) == call[1] = "processCollection"

(* the fields a class declares for a mode (one decorator per store) *)
DeclaredFor(cls, forCollection) ==
    IF forCollection /\ storage.fields[cls] # <<>> THEN storage.fields[cls]
    ELSE storage.searchFields[cls]

(* the nodes of the returned schemas, each with its field, the fields that *)
(* contain it (outermost first) and the mode of the call                   *)
NodesOfA ==
    UNION {{[node |-> r.schema["a"], field |-> DeclaredFor("A", ModeOf(c))[1],
             above |-> <<>>, forCollection |-> ModeOf(c)] :
               r \in {x \in returned[c] : x.status = "ok" /\ x.schema # EmptyObject}} :
           c \in Calls}

NodesBelow(nodes, cls, name) ==
    {[node |-> HeldSchema(n.node, n.field)[name],
      field |-> DeclaredFor(cls, n.forCollection)[1],
      above |-> Append(n.above, n.field),
      forCollection |-> n.forCollection] :
        n \in {x \in nodes : /\ HoldsSchema(x.node, x.field)
                             /\ x.field.embedType = cls
                             /\ name \in DOMAIN HeldSchema(x.node, x.field)}}

NodesOfB == NodesBelow(NodesOfA, "B", "b")
NodesOfC == NodesBelow(NodesOfB, "C", "c")
NestedNodes == NodesOfA \cup NodesOfB \cup NodesOfC

(* the type the builder tracks as parent: that of the outermost container *)
TrackedParent(n) == IF n.above = <<>> THEN Undefined ELSE n.above[1].type

(* the type of the field that immediately contains the node's field *)
ImmediateParent(n) == IF n.above = <<>> THEN Undefined ELSE n.above[Len(n.above)].type

OptionsOf(field) ==
    IF field.schemaFieldOptions = None THEN {} ELSE DOMAIN The(field.schemaFieldOptions)

(* the optional attributes of the table (index on ARRAY included) that     *)
(* apply to a field under a parent type                                    *)
Applicable(field, parent) ==
    {attr \in OptionsOf(field) \cap OptionKeys :
        /\ ~TableBlocksType(attr, field.type)
        /\ ~(attr = "index" /\ field.type = T_ARRAY)
        /\ (parent = Undefined \/ ~TableBlocksParent(attr, parent))}

(* C5: the node of an ARRAY field is exactly d nested {type: ARRAY, items} *)
(* wrappers, d = arrayDepth when present and > 1, else 1; the innermost    *)
(* items is {type: embedType} for a scalar embed type and {type: nested    *)
(* schema} for a class (an empty nested schema included); the field's      *)
(* optional attributes are on the outermost wrapper only.                  *)
C5_ArrayDepthWrappers ==
    \A n \in NestedNodes :
        n.field.type = T_ARRAY =>
            LET d == IF n.field.arrayDepth # None /\ The(n.field.arrayDepth) > 1
                     THEN The(n.field.arrayDepth) ELSE 1
                passed == IF n.above = <<>> THEN T_ARRAY ELSE TrackedParent(n)
            IN  /\ Wrappers(n.node) = d
                /\ n.node.type = TypeTag(T_ARRAY)
                /\ InnerWrappersBare(n.node)
                /\ DOMAIN n.node \ {"type", "items"} =
                      Applicable(n.field, TrackedParent(n))
                /\ Element(n.node) =
                      IF n.field.embedType \in Classes
                      THEN [type |-> TypeSchema(
                              buildTigrisSchema(storage, n.field.embedType,
                                  n.forCollection, passed).schema)]
                      ELSE [type |-> TypeTag(n.field.embedType)]

C5_Witness ==
    \E n \in NodesOfA :
        /\ n.field.type = T_ARRAY /\ n.field.arrayDepth = Some(MaxArrayDepth)
        /\ n.field.embedType = "B" /\ n.field.schemaFieldOptions # None
        /\ Wrappers(n.node) = MaxArrayDepth
        /\ \E m \in NodesOfB : m.field.type = T_ARRAY /\ m.field.arrayDepth = Some(2)
        /\ \E m \in NodesOfC : TRUE

ArrayBlocked == {"searchIndex", "sort", "facet", "dimensions", "id", "index"}

(* C7: the parent type deciding applicability is the type of the field     *)
(* that immediately contains the nested field: under an ARRAY container a  *)
(* non-OBJECT field carries none of searchIndex, sort, facet, dimensions,  *)
(* id, index; under an OBJECT container a field carries no index, whatever *)
(* the outer ancestors; a top-level field has no parent restriction.       *)
C7_ImmediateContainerDecides ==
    \A n \in NestedNodes :
        /\ (ImmediateParent(n) = T_ARRAY /\ n.field.type # T_OBJECT) =>
              DOMAIN n.node \cap ArrayBlocked = {}
        /\ ImmediateParent(n) = T_OBJECT => "index" \notin DOMAIN n.node
        /\ n.above = <<>> =>
              DOMAIN n.node \cap OptionKeys = Applicable(n.field, Undefined)

(* C8: an OBJECT field with a class embed type keeps {type: OBJECT} when   *)
(* the class resolves to no field in the current mode and otherwise has as *)
(* type the schema built from the class with the same mode and parent      *)
(* type; default is the only optional attribute it can carry; no call      *)
(* fails on an empty or absent embed type.                                 *)
C8_EmbeddedObject ==
    /\ \A r \in AllResults : r.status = "ok"
    /\ \A n \in NestedNodes :
          (n.field.type = T_OBJECT /\ n.field.embedType \in Classes) =>
              LET passed == IF n.above = <<>> THEN T_OBJECT ELSE TrackedParent(n)
              IN  /\ n.node.type =
                        IF DeclaredFor(n.field.embedType, n.forCollection) = <<>>
                        THEN TypeTag(T_OBJECT)
                        ELSE TypeSchema(buildTigrisSchema(storage, n.field.embedType,
                                            n.forCollection, passed).schema)
                  /\ DOMAIN n.node \ {"type"} = OptionsOf(n.field) \cap {"default"}

C8_Witness ==
    /\ \E n \in NodesOfA :
          /\ n.field.type = T_OBJECT /\ n.field.embedType = "B"
          /\ "schema" \in DOMAIN n.node.type
    /\ \E n \in NodesOfB :
          /\ n.field.type = T_OBJECT /\ n.field.embedType = "C"
          /\ DeclaredFor("C", n.forCollection) = <<>>
          /\ n.node = [type |-> TypeTag(T_OBJECT), default |-> 1]

--------------------------------------------------------------------------
(* The class graph: c -> d when c has an ARRAY or OBJECT field of class d  *)

EmbedTargets(fields) ==
    {fields[i].embedType :
        i \in {j \in DOMAIN fields : /\ fields[j].type \in {T_ARRAY, T_OBJECT}
                                    /\ fields[j].embedType \in Classes}}

(* through any descriptor the class declares *)
DeclaredEdges ==
    UNION {{<<c, d>> : d \in EmbedTargets(storage.fields[c])
                            \cup EmbedTargets(storage.searchFields[c])} :
           c \in Classes}

(* through the descriptors the resolver yields in a mode: the search       *)
(* fields in index mode, both lists in collection mode (none when the      *)
(* resolution throws)                                                      *)
ResolvedEdges(forCollection) ==
    UNION {{<<c, d>> : d \in
              IF ~forCollection THEN EmbedTargets(storage.searchFields[c])
              ELSE IF \E i \in DOMAIN storage.searchFields[c] :
                         storage.searchFields[c][i].name = "length"
              THEN {}
              ELSE EmbedTargets(storage.fields[c])
                   \cup EmbedTargets(storage.searchFields[c])} :
           c \in Classes}

Successors(E, S) == {e[2] : e \in {x \in E : x[1] \in S}}

RECURSIVE Reachable(_, _, _)
Reachable(E, S, n) ==
    IF n = 0 THEN S ELSE Reachable(E, S \cup Successors(E, S), n - 1)

(* the classes reached from c by one or more edges *)
Embedded(E, c) == Reachable(E, Successors(E, {c}), Cardinality(Classes))

(* c embeds, directly or transitively, a class that embeds itself *)
ReachesCycle(E, c) == \E d \in {c} \cup Embedded(E, c) : d \in Embedded(E, d)

Acyclic(E) == \A c \in Classes : c \notin Embedded(E, c)

RECURSIVE Nesting(_, _, _)
(* the number of classes on the longest chain of embeddings from c *)
Nesting(E, c, n) ==
    IF n = 0 \/ Successors(E, {c}) = {} THEN 1
    ELSE LET below == {Nesting(E, d, n - 1) : d \in Successors(E, {c})}
         IN  1 + CHOOSE m \in below : \A k \in below : k <= m

Terminated == run.status \in {"returned", "threw"}

TerminatesWithoutCycle ==
    (run.status = "running" /\ Acyclic(DeclaredEdges)) ~> Terminated

DepthWithinNesting ==
    Acyclic(DeclaredEdges) /\ run.status = "running" =>
        Len(stack) <= Nesting(DeclaredEdges, run.root, Cardinality(Classes))

(* C9 as stated: the calls terminate for every class graph without a       *)
(* cycle, with recursion depth bounded by the nesting depth of the graph;  *)
(* when the class embeds itself directly or transitively the build never   *)
(* returns.                                                                *)
C9_CyclicGraphNeverReturns ==
    /\ TerminatesWithoutCycle
    /\ []DepthWithinNesting
    /\ [](run.status # "idle" /\ ReachesCycle(DeclaredEdges, run.root) =>
             run.status \notin {"built", "returned"})

(* C9 amended: the same, the build never returning when the class reaches  *)
(* a cycle through the descriptors resolved in the mode of the call.       *)
C9_ResolvedCycleNeverReturns ==
    /\ TerminatesWithoutCycle
    /\ []DepthWithinNesting
    /\ [](run.status # "idle"
          /\ ReachesCycle(ResolvedEdges(run.forCollection), run.root) =>
             run.status \notin {"built", "returned"})

C9_Witness ==
    /\ run.status = "returned" /\ run.forCollection
    /\ Acyclic(DeclaredEdges)
    /\ Nesting(DeclaredEdges, run.root, Cardinality(Classes)) = Cardinality(Classes)
    /\ \E i \in DOMAIN storage.fields["B"] : storage.fields["B"][i].type = T_OBJECT

==========================================================================
